---- MODULE Spec2Model ----
(***************************************************************************)
(* Model of the status store (src/src/state_manager.py), its object-store  *)
(* listing (src/src/storage.py) and the callers that drive it              *)
(* (src/src/submission_manager.py, src/src/job_manager.py, src/app.py).    *)
(*                                                                         *)
(* Two threads of one process own StateManager instances: the UI thread    *)
(* (a fresh instance per re-render and per button handler) and the         *)
(* GenerationJob thread (StateManager().scan_and_sync() at the end of      *)
(* run).  Each instance keeps a private in-memory mapping `db`; both share *)
(* one side-file.  The constructor is split at its blocking point (between *)
(* load_db and scan_and_sync, where the object store is contacted), so     *)
(* that the threads interleave as they do in the program; every other      *)
(* handler is one action.                                                  *)
(*                                                                         *)
(* The specifications share the variables and the actions:                 *)
(*   Spec           the UI thread, with every way a listing and a save can *)
(*                  end (an error, a crash of the process);                *)
(*   SpecThreads    the UI thread and the job thread, nothing failing;     *)
(*   SpecAnyStatus  the UI thread passing any string to update_status;     *)
(*   SpecLedger     the UI thread over a bucket with any prompt.csv, whose     *)
(*                  listing and whose ledger can fail;                      *)
(*   SpecSubmit     the UI thread registering selections                   *)
(*                  (SubmissionManager.process_submission);                *)
(*   SpecJob        the GenerationJob threads of a session, step by step,  *)
(*                  and the UI that starts, cancels and clears them;       *)
(*   SpecJobFair    one GenerationJob thread that runs to its end, and its UI; *)
(*   SpecJobScan    one GenerationJob thread and the UI thread scanning;       *)
(*   SpecPrompt     SpecSubmit with scans that fail to read the ledger;        *)
(*   SpecNames      the names given to the upscaled images of one selection;   *)
(*   SpecKeyword    the folder names made from any keyword;                    *)
(*   SpecMetadata   MetadataManager.get_image_metadata on any arguments;   *)
(*   SpecGallery    StateManager.get_images_by_status on any mapping.      *)
(***************************************************************************)
EXTENDS Integers, Sequences, FiniteSets, TLC

\* ------------------------------------------------------------------ bounds
MaxClock == 2       \* update_status calls in one behaviour; the clock reads 0..MaxClock
MaxTags == 2        \* mandatory tags in one call of get_image_metadata
MaxAddedAt == 2     \* the added_at of a record of the gallery is in 0..MaxAddedAt
MaxJobs == 2        \* GenerationJob threads started in one behaviour
MaxPrefix == 2      \* characters of any kind at the head of a keyword

\* --------------------------------------------------------------- constants
STATUS_UNPROCESSED == "UNPROCESSED"
STATUS_REGISTERED == "REGISTERED"
STATUS_EXCLUDED == "EXCLUDED"
Statuses == {STATUS_UNPROCESSED, STATUS_REGISTERED, STATUS_EXCLUDED}

\* update_status takes new_status: str; any string is accepted by the code.
StatusArgs == Statuses \cup {"ARCHIVED"}

\* a record that never went through update_status has no "updated_at" key
NoUpdatedAt == 0 - 1
\* an object that is not in the bucket
Absent == 0 - 1

\* Object keys, as their path parts: <top>/<run>/<folder>/<name>.<ext>
Img1 == [top |-> "output", folder |-> "generated_images", name |-> "img_000", ext |-> "png"]
Img2 == [top |-> "output", folder |-> "generated_images", name |-> "img_001", ext |-> "png"]
Ledger == [top |-> "output", folder |-> "generated_images", name |-> "prompt", ext |-> "csv"]
Thumb == [top |-> "output", folder |-> "thumbs", name |-> "img_000", ext |-> "png"]
\* submissions/<batch>/upscaled_000_img_000.png, the resized image of an earlier submission
Upscaled == [top |-> "submissions", folder |-> "batch", name |-> "upscaled_000_img_000",
             ext |-> "png"]

\* the bucket's keys in the order list_objects_v2 returns them (UTF-8 binary order)
ObjectOrder == <<Img1, Img2, Ledger, Thumb, Upscaled>>
Objects == {ObjectOrder[n] : n \in DOMAIN ObjectOrder}
\* the paths handed to update_status: image keys, in the mapping or (not scanned yet) not
PathArgs == {Img1, Img2}

\* the thread that owns the instance
Inst == {"ui", "job"}

VARIABLES
    store,      \* the bucket: object key -> LastModified, or Absent
                \* (every object of the model has the LastModified 0)
    file,       \* the side-file data/image_status.json
    pc,         \* per instance: "none" | "loaded" | "ready"
    db,         \* per instance: self.db, a dict in insertion order
    now,        \* the wall clock, which has moved on whenever update_status reads it
    acked,      \* the keys named by an update_status call that wrote them and returned
                \* (recorded where the specification asks for it)
    last,       \* the operation that produced the current state
    jobs,       \* the GenerationJob threads of the session, by the order of their start
    active_job, \* st.session_state['active_job']: a job, or NoJob
    ledger,     \* the rows of the prompt.csv in the bucket (or last in it)
    sub,        \* what the last process_submission call did and returned
    call        \* a call of a function of its arguments alone: arguments and result

jobVars == <<jobs, active_job, ledger>>
callVars == <<sub, call>>
vars == <<store, file, pc, db, now, acked, last, jobs, active_job, ledger, sub, call>>

\* ----------------------------------------------------- the mapping (a dict)
DbKeys(d) == {d[n].key : n \in DOMAIN d}
DbRec(d, k) == d[CHOOSE n \in DOMAIN d : d[n].key = k]
DbStatus(d, k) == IF k \in DbKeys(d) THEN DbRec(d, k).status ELSE "none"

\* ---------------------------------------------------------- the side-file
\* json.dump(self.db, f, indent=2, ensure_ascii=False): one member per record, in dict order
DumpRec(r) == <<r.key, r.status, r.added_at, r.updated_at, r.prompt, r.tags, r.keyword>>
DumpDb(d) == [n \in DOMAIN d |-> DumpRec(d[n])]

\* a load that does not read the stored status
ParseRec_DefaultStatus(e) ==
    [key |-> e[1], status |-> STATUS_UNPROCESSED, added_at |-> e[3], updated_at |-> e[4],
     prompt |-> e[5], tags |-> e[6], keyword |-> e[7]]

\* json.load: the members back into a dict
ParseRec(e) == [key |-> e[1], status |-> e[2], added_at |-> e[3], updated_at |-> e[4],
                prompt |-> e[5], tags |-> e[6], keyword |-> e[7]]
ParseDb(es) == [n \in DOMAIN es |-> ParseRec(es[n])]

NoFile == [exists |-> FALSE, closed |-> FALSE, utf8 |-> TRUE, entries |-> << >>]
CompleteFile(d) == [exists |-> TRUE, closed |-> TRUE, utf8 |-> TRUE, entries |-> DumpDb(d)]
\* what is on disk when the write stops after n members of d (open(..., 'w') truncated first);
\* midchar: the last flushed block ends inside a multi-byte character
PartialFile(d, n, midchar) ==
    [exists |-> TRUE, closed |-> FALSE, utf8 |-> ~midchar, entries |-> SubSeq(DumpDb(d), 1, n)]

\* load_db: "raised" or the mapping it leaves in self.db
LoadRaises(f) == f.exists /\ ~f.utf8
LoadDb(f) == IF f.exists /\ f.closed /\ f.utf8 THEN ParseDb(f.entries) ELSE << >>

FileStatus(f, k) == DbStatus(LoadDb(f), k)

\* ------------------------------------------------------------ object store
\* S3Manager.list_objects(prefix="output/"): the objects under the prefix, in key order;
\* a ClientError is caught there and gives [] (a failing S3Manager() ends the scan the same way)
RECURSIVE ListFrom(_, _)
ListFrom(st, n) ==
    IF n > Len(ObjectOrder) THEN << >>
    ELSE LET o == ObjectOrder[n] IN
         IF st[o] # Absent /\ o.top = "output"
         THEN <<[Key |-> o, LastModified |-> st[o]]>> \o ListFrom(st, n + 1)
         ELSE ListFrom(st, n + 1)
ListObjects(st, ok) == IF ok THEN ListFrom(st, 1) ELSE << >>

\* a filter that takes every PNG
IsImageKey_AnyPng(k) == k.ext = "png"

\* the filter of scan_and_sync: "generated_images/" in key and key.endswith(".png")
IsImageKey(k) == k.folder = "generated_images" /\ k.ext = "png"

\* ------------------------------------------------------------------ ledger
\* prompt.csv: a header and rows of texts.  A row of the model is a record whose fields
\* are the columns of the header; filename is the basename without its ".png".
\* The job writes the columns filename, prompt, keyword, tags (and creator_ip, which
\* nothing reads back); main.py writes filename and prompt only.
LedgerRow(filename, tags) ==
    [filename |-> filename, prompt |-> "a cat", keyword |-> "cat", tags |-> tags]
PromptOnlyRow(filename) == [filename |-> filename, prompt |-> "a cat"]

\* pd.read_csv: an empty cell is read as NaN, a float, and not as the empty text
NaN == "float('nan')"
ReadCell(text) == IF text = "" THEN NaN ELSE text
ReadCsv(rows) == [n \in DOMAIN rows |-> [c \in DOMAIN rows[n] |-> ReadCell(rows[n][c])]]

\* what s3.download_file(csv_key) and pd.read_csv make of the ledger: they raise (ok is
\* FALSE: the download failed, the bytes are no CSV), or give the frame of its rows
CsvFile(rows, ok) == [ok |-> ok, rows |-> rows]

\* the tags a job was started with (a text, which may be empty), here and in the ledger
\* that is in the bucket when a behaviour starts with one
JobTags == "animal,cute"
TwoRows == <<LedgerRow(Img1.name, JobTags), LedgerRow(Img2.name, JobTags)>>

\* The ledgers a run folder can hold: written by a job started with or without tags, with
\* a row for each image or (a later job of the same folder, whose first image failed) for the
\* second image only, or written by main.py.
TagsArgs == {"", JobTags}
Ledgers ==
    {<<LedgerRow(Img1.name, t), LedgerRow(Img2.name, t)>> : t \in TagsArgs}
    \cup {<<LedgerRow(Img2.name, t)>> : t \in TagsArgs}
    \cup {<<PromptOnlyRow(Img1.name), PromptOnlyRow(Img2.name)>>}

NoMetadata == [prompt |-> "", tags |-> "", keyword |-> ""]

\* _extract_prompt_if_possible: (prompt, tags, keyword) of the first row of the ledger
\* with the file's name, or three empty strings when the ledger is missing, has no such
\* row, or anything raises (KeyError for a missing filename or prompt column included)
ExtractPrompt(st, k, csv) ==
    IF ~csv.ok \/ st[Ledger] = Absent THEN NoMetadata
    ELSE LET df == ReadCsv(csv.rows)
             row == SelectSeq(df, LAMBDA r : "filename" \in DOMAIN r /\ r.filename = k.name)
         IN IF row = << >> THEN NoMetadata
            ELSE LET first == row[1]
                     found == IF "keyword" \in DOMAIN first THEN first.keyword ELSE ""
                     keyword == IF found = NaN THEN "" ELSE found
                 IN IF "prompt" \notin DOMAIN first THEN NoMetadata
                    ELSE [prompt |-> first.prompt,
                          tags |-> IF "tags" \in DOMAIN first THEN first.tags ELSE "",
                          keyword |-> keyword]

\* ------------------------------------------------------------ scan_and_sync
NewRecord(obj, st, csv) ==
    LET m == ExtractPrompt(st, obj.Key, csv) IN
    [key |-> obj.Key, status |-> STATUS_UNPROCESSED, added_at |-> obj.LastModified,
     updated_at |-> NoUpdatedAt, prompt |-> m.prompt, tags |-> m.tags, keyword |-> m.keyword]

\* a scan that rebuilds the mapping from the listing: a record that is not listed is dropped
ScanMergeDb_FromListing(d, objects, st, csv) ==
    LET listed == SelectSeq(objects, LAMBDA obj : IsImageKey(obj.Key))
    IN [n \in DOMAIN listed |->
          IF listed[n].Key \in DbKeys(d) THEN DbRec(d, listed[n].Key)
          ELSE [key |-> listed[n].Key, status |-> STATUS_UNPROCESSED,
                added_at |-> listed[n].LastModified, updated_at |-> NoUpdatedAt,
                prompt |-> "", tags |-> "", keyword |-> ""]]

\* a scan that writes a fresh record for every listed image, known or not
ScanStep_Overwrite(d, obj, st, csv) ==
    IF ~IsImageKey(obj.Key) THEN d
    ELSE IF obj.Key \in DbKeys(d)
         THEN [n \in DOMAIN d |-> IF d[n].key = obj.Key THEN NewRecord(obj, st, csv) ELSE d[n]]
         ELSE Append(d, NewRecord(obj, st, csv))

\* a scan that does not test "key not in self.db"
ScanStep_Duplicate(d, obj, st, csv) ==
    IF IsImageKey(obj.Key) THEN Append(d, NewRecord(obj, st, csv)) ELSE d

\* the body of the loop of scan_and_sync, for one listed object
ScanStep(d, obj, st, csv) ==
    IF IsImageKey(obj.Key) /\ obj.Key \notin DbKeys(d)
    THEN Append(d, NewRecord(obj, st, csv))
    ELSE d

\* the loop of scan_and_sync over the listing
RECURSIVE ScanMergeDb(_, _, _, _)
ScanMergeDb(d, objects, st, csv) ==
    IF objects = << >> THEN d
    ELSE ScanMergeDb(ScanStep(d, Head(objects), st, csv), Tail(objects), st, csv)

\* a scan that saves inside its loop, once for each record it adds
ScanWrites_PerRecord(d, newdb) == Len(newdb) - Len(d)

\* the calls of save_db in scan_and_sync: `if updated: self.save_db()` after the loop
ScanWrites(d, newdb) == IF Len(newdb) > Len(d) THEN 1 ELSE 0

\* ------------------------------------------------------------ update_status
\* an update that takes a record that has the new status already back to UNPROCESSED
UpdateRec_Toggle(r, paths, newStatus, t) ==
    IF r.key \notin paths THEN r
    ELSE IF r.status = newStatus
    THEN [r EXCEPT !.status = STATUS_UNPROCESSED, !.updated_at = t]
    ELSE [r EXCEPT !.status = newStatus, !.updated_at = t]

\* an update that stamps a record only when its status changes
UpdateRec_StampOnChange(r, paths, newStatus, t) ==
    IF r.key \in paths /\ r.status # newStatus
    THEN [r EXCEPT !.status = newStatus, !.updated_at = t]
    ELSE r

\* self.db[path]["status"] = new_status; self.db[path]["updated_at"] = datetime.now()...
UpdateRec(r, paths, newStatus, t) ==
    IF r.key \in paths THEN [r EXCEPT !.status = newStatus, !.updated_at = t] ELSE r

\* an update that creates a record for a listed key the mapping does not hold
UpdateDb_Upsert(d, paths, newStatus, t) ==
    LET touched == [n \in DOMAIN d |-> UpdateRec(d[n], paths, newStatus, t)]
        missing == paths \ DbKeys(d)
    IN IF missing = {} THEN touched
       ELSE Append(touched, [key |-> CHOOSE k \in missing : TRUE, status |-> newStatus,
                             added_at |-> t, updated_at |-> t,
                             prompt |-> "", tags |-> "", keyword |-> ""])

\* the loop of update_status: only keys already in self.db are touched
UpdateDb(d, paths, newStatus, t) == [n \in DOMAIN d |-> UpdateRec(d[n], paths, newStatus, t)]

\* an update that saves inside its loop, once for each key it finds
UpdateWrites_PerKey(d, paths) == Cardinality(paths \cap DbKeys(d))

\* the calls of save_db in update_status: `if updated: self.save_db()` after the loop
UpdateWrites(d, paths) == IF paths \cap DbKeys(d) # {} THEN 1 ELSE 0

\* ------------------------------------------------------------------ save_db
\* How a save can end: "ok"; "open_fails" (makedirs/open raises OSError, nothing written);
\* "write_fails" (the write raises after open(..., 'w') truncated the file);
\* "crash" (the process dies during the write).
SaveOutcomes == {"ok", "open_fails", "write_fails", "crash"}

\* the side-file after save_db of mapping d ends with `how`, having written n members
SaveDb(f, d, how, n, midchar) ==
    CASE how = "ok" -> CompleteFile(d)
      [] how = "open_fails" -> f
      [] OTHER -> PartialFile(d, n, midchar)

\* the cuts a stopped write can leave: <<n, midchar>>, n whole members flushed and the last
\* block possibly ending inside a multi-byte character (keys and prompts are written with
\* ensure_ascii=False).  json.load fails the same way whatever n is; the model keeps n = 0.
Cuts(d, how) ==
    IF Len(d) > 0 /\ how = "crash" THEN {<<0, FALSE>>, <<0, TRUE>>} ELSE {<<0, FALSE>>}

\* ----------------------------------------------------- the metadata service
\* A comma-separated text is the sequence of its fields, the texts between the commas:
\* "" is <<"">> and "cat,cute" is <<"cat", "cute">>.
Tags == {"cat", "cute"}
\* the lists of mandatory tags handed to get_image_metadata (duplicates included)
TagLists == UNION {[1 .. n -> Tags] : n \in 0 .. MaxTags}

\* ",".join(user_tags)
Join(list) == IF list = << >> THEN <<"">> ELSE list

\* the fallback record of get_image_metadata
ErrorTitle == "title generation error"
FallbackCategory == 8
\* the category ids of the marketplace: 1 .. NumCategories
NumCategories == 21

\* What the remote call can do: raise (or answer with arguments json.loads rejects), or
\* answer with tool-call arguments, which the model takes with any tags and category.
RaisesResponse == [kind |-> "raises", title |-> "", tags |-> <<"">>, category |-> 0]
CategoryArgs == {0, 1, FallbackCategory, NumCategories, NumCategories + 1}
Responses ==
    {RaisesResponse} \cup
    {[kind |-> "args", title |-> "a title", tags |-> Join(t), category |-> c] :
        t \in TagLists, c \in CategoryArgs}

\* get_image_metadata with a fallback that forgets the mandatory tags
GetImageMetadata_NoFallbackTags(generation_prompt, user_tags, response) ==
    IF response.kind = "raises"
    THEN [title |-> ErrorTitle, tags |-> <<"">>, category |-> FallbackCategory]
    ELSE [title |-> response.title, tags |-> response.tags, category |-> response.category]

\* get_image_metadata(generation_prompt, user_tags): the arguments of the tool call as they
\* came, or the fallback when anything inside the try block raised
GetImageMetadata(generation_prompt, user_tags, response) ==
    IF response.kind = "raises"
    THEN [title |-> ErrorTitle, tags |-> Join(user_tags), category |-> FallbackCategory]
    ELSE [title |-> response.title, tags |-> response.tags, category |-> response.category]

\* ------------------------------------------------------ get_images_by_status
Img3 == [top |-> "output", folder |-> "generated_images", name |-> "img_002", ext |-> "png"]
GalleryKeys == {Img1, Img2, Img3}

\* item = data.copy(); item["path"] = path
Item(r) == [path |-> r.key, status |-> r.status, added_at |-> r.added_at,
            updated_at |-> r.updated_at, prompt |-> r.prompt, tags |-> r.tags,
            keyword |-> r.keyword]

\* an insertion that puts x before the items of equal added_at
InsertDesc_BeforeEqual(sorted, x) ==
    LET n == Cardinality({m \in DOMAIN sorted : sorted[m].added_at > x.added_at})
    IN SubSeq(sorted, 1, n) \o <<x>> \o SubSeq(sorted, n + 1, Len(sorted))

\* list.sort(key=added_at, reverse=True) is stable: x, which comes after `sorted` in the
\* list, goes behind every item whose added_at is not smaller
InsertDesc(sorted, x) ==
    LET n == Cardinality({m \in DOMAIN sorted : sorted[m].added_at >= x.added_at})
    IN SubSeq(sorted, 1, n) \o <<x>> \o SubSeq(sorted, n + 1, Len(sorted))

RECURSIVE SortDesc(_)
SortDesc(items) ==
    IF items = << >> THEN << >>
    ELSE InsertDesc(SortDesc(SubSeq(items, 1, Len(items) - 1)), items[Len(items)])

Matching(d, status) == SelectSeq(d, LAMBDA r : r.status = status)

GetImagesByStatus(d, status) ==
    LET found == Matching(d, status)
    IN SortDesc([n \in DOMAIN found |-> Item(found[n])])

\* -------------------------------------------------- the submission pipeline
\* new_filename = f"upscaled_{idx:03d}_{original_basename}.png"
UpscaledName(idx, key) == [idx |-> idx, name |-> key.name, ext |-> "png"]
SubmitCsv == [idx |-> 0 - 1, name |-> "submit", ext |-> "csv"]

\* text.split(","): the texts a record of the model holds as its tags
Fields(text) == IF text = "animal,cute" THEN <<"animal", "cute">> ELSE <<text>>
\* [t.strip() for t in stored_tags_str.split(",") if t.strip()] if stored_tags_str else []
\* (no field of the model has a blank)
StoredTags(text) == IF text = "" THEN << >> ELSE SelectSeq(Fields(text), LAMBDA t : t # "")

\* The locals of process_submission, and the calls made so far: attempts are the positions
\* _process_single_image was called with, one entry per call; resized and described are
\* the positions for which upscale_image and get_image_metadata were called, uploaded the
\* objects put under submissions/, members the names written into the ZIP, prompts the
\* prompt get_image_metadata was called with for a position and its key.
NoItems == [csv_data |-> << >>, processed_file_paths |-> << >>, members |-> << >>,
            attempts |-> << >>, resized |-> {}, described |-> {}, uploaded |-> {},
            prompts |-> {}]

\* One pass of the loop body over selected_images[idx].  upscale_image raises when the
\* source is not in the bucket or cannot be decoded (resizeFails); download_file of the
\* upscaled object raises for the positions in downloadFails.  Tags that are no text
\* (the NaN of an empty cell of the ledger) raise at .split(","), after the upscaled
\* object was put.  Each exception is caught and printed by the loop.  The prompt handed
\* to get_image_metadata is img_info.get('prompt', ""), whatever it is.
SubmitItem(acc, idx, img_info, st, resizeFails, response, downloadFails) ==
    LET input_key == img_info.path
        new_filename == UpscaledName(idx, input_key)
        called == [acc EXCEPT !.resized = @ \cup {idx}, !.attempts = Append(@, idx)]
        prompt == img_info.prompt
        meta == GetImageMetadata(prompt, StoredTags(img_info.tags), response)
        row == [Filename |-> new_filename, Title |-> meta.title,
                Keywords |-> meta.tags, Category |-> meta.category]
        appended == [called EXCEPT !.uploaded = @ \cup {new_filename},
                                   !.described = @ \cup {idx},
                                   !.prompts = @ \cup {[idx |-> idx, path |-> input_key,
                                                         prompt |-> prompt]},
                                   !.csv_data = Append(@, row),
                                   !.processed_file_paths = Append(@, input_key)]
    IN IF st[input_key] = Absent \/ idx \in resizeFails THEN called
       ELSE IF img_info.tags = NaN
            THEN [called EXCEPT !.uploaded = @ \cup {new_filename}]
       ELSE IF idx \in downloadFails THEN appended
       ELSE [appended EXCEPT !.members = Append(@, new_filename)]

\* a loop that an exception of the per-item step leaves: the items after it are not attempted
RECURSIVE SubmitItems_StopAtFailure(_, _, _, _, _, _, _)
SubmitItems_StopAtFailure(acc, n, selected_images, st, resizeFails, response, downloadFails) ==
    IF n > Len(selected_images) THEN acc
    ELSE LET next == SubmitItem(acc, n - 1, selected_images[n], st, resizeFails, response,
                                downloadFails)
         IN IF Len(next.members) = Len(acc.members) THEN next
            ELSE SubmitItems_StopAtFailure(next, n + 1, selected_images, st, resizeFails,
                                           response, downloadFails)

\* for idx, img_info in enumerate(selected_images): try: ... except Exception: print
RECURSIVE SubmitItems(_, _, _, _, _, _, _)
SubmitItems(acc, n, selected_images, st, resizeFails, response, downloadFails) ==
    IF n > Len(selected_images) THEN acc
    ELSE SubmitItems(SubmitItem(acc, n - 1, selected_images[n], st, resizeFails, response,
                                downloadFails),
                     n + 1, selected_images, st, resizeFails, response, downloadFails)

\* The value process_submission returns: None, or zip_buffer.getvalue() of the closed
\* archive with its members and the rows of submit.csv.
NoneResult == [is_none |-> TRUE, members |-> << >>, manifest |-> << >>]
ZipResult(acc) ==
    [is_none |-> FALSE,
     members |-> acc.members \o (IF acc.csv_data # << >> THEN <<SubmitCsv>> ELSE << >>),
     manifest |-> acc.csv_data]
\* the size of the bytes, in records of the ZIP format: one per member, and the
\* end-of-central-directory record that ZipFile.close() writes even with no member
ZipSize(result) == Len(result.members) + 1
\* `if zip_data:` in process_registration
Truthy(result) == ~result.is_none /\ ZipSize(result) > 0

\* process_submission without its first two lines: an empty selection is processed too
Submission_NoEmptyGuard(selected_images, st, resizeFails, response, downloadFails) ==
    LET acc == SubmitItems(NoItems, 1, selected_images, st, resizeFails, response,
                           downloadFails)
    IN [batch |-> TRUE, acc |-> acc, result |-> ZipResult(acc)]

\* process_submission up to its call of update_status: whether the batch prefix was made,
\* the locals after the loop, and the value to return
Submission(selected_images, st, resizeFails, response, downloadFails) ==
    IF selected_images = << >>
    THEN [batch |-> FALSE, acc |-> NoItems, result |-> NoneResult]
    ELSE LET acc == SubmitItems(NoItems, 1, selected_images, st, resizeFails, response,
                                downloadFails)
         IN [batch |-> TRUE, acc |-> acc, result |-> ZipResult(acc)]

\* The selections process_registration hands over: records of the mapping, each once,
\* annotated with their key as 'path', in any order.
Selections(d) ==
    UNION {{[n \in 1 .. m |-> Item(d[f[n]])] :
              f \in {g \in [1 .. m -> DOMAIN d] : \A a, b \in 1 .. m : a # b => g[a] # g[b]}} :
           m \in 0 .. Len(d)}

\* the remote answers the metadata service gets during a submission
SubmitResponses ==
    {RaisesResponse,
     [kind |-> "args", title |-> "a title", tags |-> <<"animal", "cute">>, category |-> 1]}

NoSubmission == [selected |-> << >>, batch |-> FALSE, failed |-> {}, attempts |-> << >>,
                 resized |-> {},
                 described |-> {}, uploaded |-> {}, prompts |-> {}, paths |-> << >>,
                 result |-> NoneResult, report |-> "none"]

\* --------------------------------------------------------- keyword segments
\* A keyword is the sequence of its characters.  The characters of the model: a letter, a
\* digit, the three characters the job keeps besides, and two it does not.
KeywordChars == {"a", "7", " ", "_", "-", "/", "."}
\* str.isalnum() of one character
IsAlnum(c) == c \in {"a", "7"}
\* [:50]
SegmentLimit == 50

\* the keywords of the model: any MaxPrefix characters at most, then letters up to a
\* length about the limit
Keywords ==
    {p \o [m \in 1 .. n |-> "a"] :
       p \in UNION {[1 .. m -> KeywordChars] : m \in 0 .. MaxPrefix},
       n \in {0, SegmentLimit - 1, SegmentLimit, SegmentLimit + 1}}

\* str.strip(): the blanks at both ends are dropped
RECURSIVE LStrip(_)
LStrip(text) ==
    IF text # << >> /\ Head(text) = " " THEN LStrip(Tail(text)) ELSE text
RECURSIVE RStrip(_)
RStrip(text) ==
    IF text # << >> /\ text[Len(text)] = " "
    THEN RStrip(SubSeq(text, 1, Len(text) - 1))
    ELSE text
Strip(text) == RStrip(LStrip(text))

\* str.replace(old, new) for one character; new may be the empty text
Replace(text, old, new) ==
    IF new = ""
    THEN SelectSeq(text, LAMBDA c : c # old)
    ELSE [n \in DOMAIN text |-> IF text[n] = old THEN new ELSE text[n]]

\* text[:limit]
Truncate(text, limit) == SubSeq(text, 1, IF Len(text) < limit THEN Len(text) ELSE limit)

\* GenerationJob.run: "".join(c for c in self.keyword if c.isalnum() or c in (' ', '_',
\* '-')).strip().replace(" ", "_")[:50]
JobSafeKeyword(keyword) ==
    Truncate(Replace(Strip(SelectSeq(keyword,
                                     LAMBDA c : IsAlnum(c) \/ c \in {" ", "_", "-"})),
                     " ", "_"),
             SegmentLimit)

\* process_submission: keyword.replace(" ", "_").replace("/", "")
SubmissionSafeKeyword(keyword) == Replace(Replace(keyword, " ", "_"), "/", "")

\* ------------------------------------------------- names of upscaled images
\* A key and a file name are the sequences of their characters.
MaxStem == 2        \* characters of a file name before its extension

DotPng == <<".", "p", "n", "g">>
Stems == UNION {[1 .. m -> {"a", "0", "_", "."}] : m \in 0 .. MaxStem}
\* the keys of images: <folder>/<stem>.png
ImageKey(folder, stem) == <<folder, "/">> \o stem \o DotPng

\* the positions enumerate() gives to two items of one selection
ItemPositions == {0, 1, 10, 100, 1000}

\* os.path.basename(p): what follows the last "/"
Basename(p) ==
    LET seps == {n \in DOMAIN p : p[n] = "/"}
        i == IF seps = {} THEN 0 ELSE CHOOSE n \in seps : \A m \in seps : m <= n
    IN SubSeq(p, i + 1, Len(p))

\* os.path.splitext(p)[0] of a name without "/": the name up to its last dot, or all of
\* it when it has no dot or nothing but dots before the last one
SplitExtRoot(p) ==
    LET dots == {n \in DOMAIN p : p[n] = "."}
        d == IF dots = {} THEN 0 ELSE CHOOSE n \in dots : \A m \in dots : m <= n
    IN IF \E n \in 1 .. d - 1 : p[n] # "." THEN SubSeq(p, 1, d - 1) ELSE p

\* str(n) of a natural number
RECURSIVE Decimal(_)
Decimal(n) ==
    LET digit == <<"0", "1", "2", "3", "4", "5", "6", "7", "8", "9">>[(n % 10) + 1]
    IN IF n < 10 THEN <<digit>> ELSE Append(Decimal(n \div 10), digit)

\* f"{idx:03d}": the decimal digits, with zeros in front up to a width of three
Format03d(idx) ==
    LET digits == Decimal(idx)
    IN [n \in 1 .. (IF Len(digits) < 3 THEN 3 - Len(digits) ELSE 0) |-> "0"] \o digits

UpscaledUnderscore == <<"u", "p", "s", "c", "a", "l", "e", "d", "_">>

\* a name made of the basename alone
NewFilename_NoIndex(idx, input_key) ==
    UpscaledUnderscore \o SplitExtRoot(Basename(input_key)) \o DotPng

\* original_basename = os.path.splitext(os.path.basename(input_key))[0]
\* new_filename = f"upscaled_{idx:03d}_{original_basename}.png"
NewFilename(idx, input_key) ==
    UpscaledUnderscore \o Format03d(idx) \o <<"_">> \o SplitExtRoot(Basename(input_key))
        \o DotPng

\* output_key = f"{submission_prefix}/{new_filename}"
OutputKey(submission_prefix, new_filename) == submission_prefix \o <<"/">> \o new_filename

\* zip_file.writestr("submit.csv", ...)
SubmitCsvName == <<"s", "u", "b", "m", "i", "t", ".", "c", "s", "v">>

\* ----------------------------------------------------------- GenerationJob
JobIds == 1 .. MaxJobs
NoJob == 0
\* img_000.png, img_001.png: the objects a job writes, by loop index + 1
ImageOrder == <<Img1, Img2>>

\* GenerationJob.__init__: the status snapshot and the stop event.
\* pc is the thread's position: "unborn" (not constructed), "started" (start() returned,
\* run() has not begun), "setup", "ideas", "loop", "image", "finalize", "ended".
\* ideas, i, csv_data are the locals of run(); produced (the objects generate_image put)
\* and stopped (where run() saw the flag set: "no" | "setup" | "loop") are history.
NewJob == [pc |-> "unborn", stop |-> FALSE, progress |-> 0, message |-> "Initializing...",
           is_running |-> FALSE, is_complete |-> FALSE, error |-> "None",
           generated_count |-> 0, ideas |-> 0, i |-> 0, csv_data |-> << >>,
           produced |-> {}, stopped |-> "no"]
NoJobs == [j \in JobIds |-> NewJob]

\* a pure function before its call
NoCall == [fn |-> "none"]

\* ------------------------------------------------------------------ history
\* op: the handler; inst: its instance; outcome: "ok" (returned) | "raised" | "crashed";
\* paths, status: the arguments of update_status; updated: its `updated` flag;
\* save: how save_db ended, "none" when it was not called; listed: the listing succeeded;
\* prev: "listed" | "failed" when the operation is a scan_and_sync that directly follows a
\* scan_and_sync of the same instance (every action on the bucket comes between), else "no";
\* "same" when it is an update_status that directly follows an update_status of the same
\* instance with the same arguments, which returned;
\* csv: the ledger could be fetched and parsed, had the scan asked for it;
\* writes: the number of calls of save_db the operation made
NoOp == [op |-> "env", inst |-> "none", outcome |-> "ok", paths |-> {},
         status |-> "none", updated |-> FALSE, save |-> "none", listed |-> FALSE,
         prev |-> "no", csv |-> TRUE, writes |-> 0]

NoInstances == [i \in Inst |-> "none"]
EmptyDbs == [i \in Inst |-> << >>]

Init ==
    /\ store = [o \in Objects |-> IF IsImageKey(o) THEN Absent ELSE 0]
    /\ file = NoFile
    /\ pc = NoInstances
    /\ db = EmptyDbs
    /\ now = 0
    /\ acked = {}
    /\ last = NoOp
    /\ jobs = NoJobs
    /\ active_job = NoJob
    /\ ledger = TwoRows
    /\ sub = NoSubmission
    /\ call = NoCall

\* the arguments of one call of get_image_metadata, and what the remote call will do
InitMetadata ==
    /\ store = [o \in Objects |-> IF IsImageKey(o) THEN Absent ELSE 0]
    /\ file = NoFile
    /\ pc = NoInstances
    /\ db = EmptyDbs
    /\ now = 0
    /\ acked = {}
    /\ last = NoOp
    /\ jobs = NoJobs
    /\ active_job = NoJob
    /\ ledger = TwoRows
    /\ sub = NoSubmission
    /\ call \in {[fn |-> "none", generation_prompt |-> p, user_tags |-> t, response |-> r] :
                   p \in {"", "a cat"}, t \in TagLists, r \in Responses}

\* a record of the mapping, as scan_and_sync made it or update_status left it
GalleryRecord(k, s, t) ==
    [key |-> k, status |-> s, added_at |-> t, updated_at |-> NoUpdatedAt,
     prompt |-> "", tags |-> "", keyword |-> ""]
\* the mappings over the given keys: any records, no key twice, in any insertion order
GalleryDbs(keys) ==
    UNION {{[n \in 1 .. m |-> GalleryRecord(k[n], s[n], t[n])] :
              k \in {g \in [1 .. m -> keys] : \A a, b \in 1 .. m : a # b => g[a] # g[b]},
              s \in [1 .. m -> Statuses],
              t \in [1 .. m -> 0 .. MaxAddedAt]} :
           m \in 0 .. Cardinality(keys)}

\* a bucket with any ledger, or none, in the run folder
InitLedger ==
    /\ \E rows \in Ledgers, has \in BOOLEAN :
         /\ ledger = IF has THEN rows ELSE << >>
         /\ store = [o \in Objects |->
                       IF IsImageKey(o) \/ (o = Ledger /\ ~has) THEN Absent ELSE 0]
    /\ file = NoFile
    /\ pc = NoInstances
    /\ db = EmptyDbs
    /\ now = 0
    /\ acked = {}
    /\ last = NoOp
    /\ jobs = NoJobs
    /\ active_job = NoJob
    /\ sub = NoSubmission
    /\ call = NoCall

\* the keyword a job is constructed with, or process_submission is called with
InitKeyword ==
    /\ store = [o \in Objects |-> IF IsImageKey(o) THEN Absent ELSE 0]
    /\ file = NoFile
    /\ pc = NoInstances
    /\ db = EmptyDbs
    /\ now = 0
    /\ acked = {}
    /\ last = NoOp
    /\ jobs = NoJobs
    /\ active_job = NoJob
    /\ ledger = TwoRows
    /\ sub = NoSubmission
    /\ call \in {[fn |-> "none", keyword |-> k] : k \in Keywords}

\* two items of one selection: their positions and their keys, which may be the same
InitNames ==
    /\ store = [o \in Objects |-> IF IsImageKey(o) THEN Absent ELSE 0]
    /\ file = NoFile
    /\ pc = NoInstances
    /\ db = EmptyDbs
    /\ now = 0
    /\ acked = {}
    /\ last = NoOp
    /\ jobs = NoJobs
    /\ active_job = NoJob
    /\ ledger = TwoRows
    /\ sub = NoSubmission
    /\ \E i, j \in ItemPositions, s, t \in Stems, folder \in {"x", "y"} :
         /\ i < j
         /\ call = [fn |-> "none",
                    items |-> <<[idx |-> i, path |-> ImageKey("x", s)],
                                [idx |-> j, path |-> ImageKey(folder, t)]>>]

\* a session that has started no job; the folder the jobs write to is empty
InitJob ==
    /\ store = [o \in Objects |-> IF o = Thumb THEN 0 ELSE Absent]
    /\ file = NoFile
    /\ pc = NoInstances
    /\ db = EmptyDbs
    /\ now = 0
    /\ acked = {}
    /\ last = NoOp
    /\ jobs = NoJobs
    /\ active_job = NoJob
    /\ ledger = << >>
    /\ sub = NoSubmission
    /\ call = NoCall

\* an instance that has loaded such a mapping, and the argument of get_images_by_status
InitGallery ==
    /\ store = [o \in Objects |-> IF IsImageKey(o) THEN Absent ELSE 0]
    /\ \E d \in GalleryDbs(GalleryKeys) :
         /\ file = CompleteFile(d)
         /\ db = [EmptyDbs EXCEPT !["ui"] = d]
    /\ pc = [NoInstances EXCEPT !["ui"] = "ready"]
    /\ now = 0
    /\ acked = {}
    /\ last = NoOp
    /\ jobs = NoJobs
    /\ active_job = NoJob
    /\ ledger = TwoRows
    /\ sub = NoSubmission
    /\ call \in {[fn |-> "none", status |-> s] : s \in Statuses}

\* ------------------------------------------------------------- environment
\* an image is put into the bucket (generate_image -> S3Manager.upload_file)
Upload(o) ==
    /\ IsImageKey(o)
    /\ store[o] = Absent
    /\ store' = [store EXCEPT ![o] = 0]
    /\ last' = NoOp
    /\ UNCHANGED <<file, pc, db, now, acked, jobVars, callVars>>

\* an image vanishes from the bucket
Vanish(o) ==
    /\ IsImageKey(o)
    /\ store[o] # Absent
    /\ store' = [store EXCEPT ![o] = Absent]
    /\ last' = NoOp
    /\ UNCHANGED <<file, pc, db, now, acked, jobVars, callVars>>

\* an instance goes out of scope (the end of a UI run, of the job's run)
Discard(i) ==
    /\ pc[i] # "none"
    /\ pc' = [pc EXCEPT ![i] = "none"]
    /\ db' = [db EXCEPT ![i] = << >>]
    /\ last' = NoOp
    /\ UNCHANGED <<store, file, now, acked, jobVars, callVars>>

\* ---------------------------------------------------------------- handlers
\* StateManager.__init__, first half: self.db = {} and load_db()
Load(i) ==
    /\ pc[i] = "none"
    /\ IF LoadRaises(file)
       THEN /\ UNCHANGED <<pc, db>>
            /\ last' = [NoOp EXCEPT !.op = "load_db", !.inst = i, !.outcome = "raised"]
       ELSE /\ pc' = [pc EXCEPT ![i] = "loaded"]
            /\ db' = [db EXCEPT ![i] = LoadDb(file)]
            /\ last' = [NoOp EXCEPT !.op = "load_db", !.inst = i]
    /\ UNCHANGED <<store, file, now, acked, jobVars, callVars>>

\* what a handler leaves behind once its save_db ended with `how`:
\* a crash takes every instance of the process with it
AfterSave(i, newdb, how) ==
    IF how = "crash"
    THEN /\ pc' = NoInstances
         /\ db' = EmptyDbs
    ELSE /\ pc' = [pc EXCEPT ![i] = "ready"]
         /\ db' = [db EXCEPT ![i] = newdb]

\* if updated: self.save_db()
SaveIf(updated, newdb, how) ==
    /\ IF updated THEN TRUE ELSE how = "ok"
    /\ \E c \in Cuts(newdb, IF updated THEN how ELSE "ok") :
         file' = IF updated THEN SaveDb(file, newdb, how, c[1], c[2]) ELSE file

\* scan_and_sync (the second half of __init__, the job's final call, "Forced Rescan")
\* hows: the ways save_db can end; oks: whether the listing can fail; csvs: whether the
\* download and the parse of the ledger can fail
ScanAndSync(i, oks, csvs, hows) ==
    /\ pc[i] \in {"loaded", "ready"}
    /\ \E listOk \in oks, csvOk \in csvs, how \in hows :
         LET newdb == ScanMergeDb(db[i], ListObjects(store, listOk), store,
                                  CsvFile(ledger, csvOk))
             \* the flag `updated`: set when the loop added a record
             updated == Len(newdb) > Len(db[i])
         IN /\ SaveIf(updated, newdb, how)
            /\ AfterSave(i, newdb, how)
            \* every exception inside the try block is printed and swallowed
            /\ last' = [NoOp EXCEPT !.op = "scan_and_sync", !.inst = i,
                          !.outcome = IF how = "crash" THEN "crashed" ELSE "ok",
                          !.updated = updated,
                          !.save = IF updated THEN how ELSE "none",
                          !.listed = listOk,
                          !.csv = csvOk,
                          !.writes = ScanWrites(db[i], newdb),
                          !.prev = IF last.op = "scan_and_sync" /\ last.inst = i
                                      /\ last.outcome = "ok"
                                   THEN IF last.listed THEN "listed" ELSE "failed"
                                   ELSE "no"]
    /\ UNCHANGED <<store, now, acked, jobVars, callVars>>

\* update_status(file_paths, new_status); only the UI thread calls it
\* track: whether the call is recorded in `acked`
UpdateStatus(i, paths, newStatus, hows, track) ==
    /\ i = "ui"
    /\ pc[i] = "ready"
    /\ now < MaxClock
    /\ now' = now + 1
    /\ \E how \in hows :
         LET newdb == UpdateDb(db[i], paths, newStatus, now')
             updated == paths \cap DbKeys(db[i]) # {}
         IN /\ SaveIf(updated, newdb, how)
            /\ AfterSave(i, newdb, how)
            /\ acked' = IF track /\ updated /\ how = "ok"
                        THEN acked \cup (paths \cap DbKeys(db[i]))
                        ELSE acked
            \* an exception of save_db is not caught here
            /\ last' = [NoOp EXCEPT !.op = "update_status", !.inst = i,
                          !.outcome = CASE how = "crash" -> "crashed"
                                        [] how = "ok" -> "ok"
                                        [] OTHER -> "raised",
                          !.paths = paths, !.status = newStatus,
                          !.updated = updated, !.save = IF updated THEN how ELSE "none",
                          !.writes = UpdateWrites(db[i], paths),
                          !.prev = IF /\ last.op = "update_status" /\ last.inst = i
                                      /\ last.outcome = "ok"
                                      /\ last.paths = paths /\ last.status = newStatus
                                   THEN "same" ELSE "no"]
    /\ UNCHANGED <<store, jobVars, callVars>>

\* The UI thread alone, calling update_status with the three constants, with every way a
\* listing and a save can end.
Next ==
    \/ \E o \in Objects : Upload(o)
    \/ \E o \in Objects : Vanish(o)
    \/ Discard("ui")
    \/ Load("ui")
    \/ ScanAndSync("ui", BOOLEAN, {TRUE}, SaveOutcomes)
    \/ \E paths \in SUBSET PathArgs, s \in Statuses :
         UpdateStatus("ui", paths, s, SaveOutcomes, FALSE)

Spec == Init /\ [][Next]_vars

\* The UI thread and the GenerationJob thread, with no failure of the bucket or the disk.
NextThreads ==
    \/ \E o \in Objects : Upload(o)
    \/ \E o \in Objects : Vanish(o)
    \/ \E i \in Inst : Discard(i)
    \/ \E i \in Inst : Load(i)
    \/ \E i \in Inst : ScanAndSync(i, {TRUE}, {TRUE}, {"ok"})
    \/ \E paths \in SUBSET PathArgs, s \in Statuses : UpdateStatus("ui", paths, s, {"ok"}, TRUE)

SpecThreads == Init /\ [][NextThreads]_vars

\* The UI thread alone, calling update_status with any string, with no failure of the
\* bucket or the disk.
NextAnyStatus ==
    \/ \E o \in Objects : Upload(o)
    \/ \E o \in Objects : Vanish(o)
    \/ Discard("ui")
    \/ Load("ui")
    \/ ScanAndSync("ui", {TRUE}, {TRUE}, {"ok"})
    \/ \E paths \in SUBSET PathArgs, s \in StatusArgs :
         UpdateStatus("ui", paths, s, {"ok"}, FALSE)

SpecAnyStatus == Init /\ [][NextAnyStatus]_vars

\* The UI thread alone over a bucket with any ledger: the listing, and the download and the
\* parse of the ledger, can fail; the disk does not.
NextLedger ==
    \/ \E o \in Objects : Upload(o)
    \/ \E o \in Objects : Vanish(o)
    \/ Discard("ui")
    \/ Load("ui")
    \/ ScanAndSync("ui", BOOLEAN, BOOLEAN, {"ok"})
    \/ \E paths \in SUBSET PathArgs :
         UpdateStatus("ui", paths, STATUS_REGISTERED, {"ok"}, FALSE)

SpecLedger == InitLedger /\ [][NextLedger]_vars

\* process_submission(selected_images) on the instance of the SubmissionManager, and what
\* process_registration makes of the value it returns.  hows: the ways save_db can end.
ProcessSubmission(i, hows) ==
    /\ i = "ui"
    /\ pc[i] = "ready"
    /\ now < MaxClock
    /\ \E selected_images \in Selections(db[i]), response \in SubmitResponses, how \in hows :
       \E resizeFails \in SUBSET (0 .. Len(selected_images) - 1) :
       \E downloadFails \in SUBSET ((0 .. Len(selected_images) - 1) \ resizeFails) :
       \E s \in {Submission(selected_images, store, resizeFails, response,
                             downloadFails)} :
         LET acc == s.acc
             paths == {acc.processed_file_paths[n] : n \in DOMAIN acc.processed_file_paths}
             \* if processed_file_paths: self.state_mgr.update_status(...)
             called == acc.processed_file_paths # << >>
             newdb == UpdateDb(db[i], paths, STATUS_REGISTERED, now')
             updated == paths \cap DbKeys(db[i]) # {}
             raised == called /\ updated /\ how # "ok"
             result == IF raised THEN NoneResult ELSE s.result
         IN \* the clock is read for the batch prefix and by update_status
            /\ now' = IF s.batch THEN now + 1 ELSE now
            /\ (selected_images = << >>) => (response = RaisesResponse)
            /\ IF called
               THEN SaveIf(updated, newdb, how) /\ AfterSave(i, newdb, how)
               ELSE how = "ok" /\ UNCHANGED <<file, pc, db>>
            /\ sub' = [selected |-> [n \in DOMAIN selected_images |-> selected_images[n].path],
                       batch |-> s.batch,
                       failed |-> {n \in 0 .. Len(selected_images) - 1 :
                                     \/ store[selected_images[n + 1].path] = Absent
                                     \/ n \in resizeFails},
                       attempts |-> acc.attempts,
                       resized |-> acc.resized,
                       described |-> acc.described,
                       prompts |-> acc.prompts,
                       uploaded |-> acc.uploaded,
                       paths |-> acc.processed_file_paths,
                       result |-> result,
                       \* if zip_data: st.success(...) else: st.error(...)
                       report |-> IF raised THEN "raised"
                                  ELSE IF Truthy(result) THEN "success" ELSE "error"]
            /\ last' = [NoOp EXCEPT !.op = "process_submission", !.inst = i,
                          !.outcome = CASE ~raised -> "ok"
                                        [] how = "crash" -> "crashed"
                                        [] OTHER -> "raised",
                          !.paths = paths, !.status = STATUS_REGISTERED,
                          !.updated = called /\ updated,
                          !.save = IF called /\ updated THEN how ELSE "none",
                          !.writes = IF called THEN UpdateWrites(db[i], paths) ELSE 0]
    /\ UNCHANGED <<store, acked, jobVars, call>>

\* The UI thread registering selections, with no failure of the bucket's listing or of the
\* disk; a resize and a download of the resized object can fail.
NextSubmit ==
    \/ \E o \in Objects : Upload(o)
    \/ \E o \in Objects : Vanish(o)
    \/ Discard("ui")
    \/ Load("ui")
    \/ ScanAndSync("ui", {TRUE}, {TRUE}, {"ok"})
    \/ ProcessSubmission("ui", {"ok"})

SpecSubmit == Init /\ [][NextSubmit]_vars

\* The same with images that stay in the bucket and a ledger whose download can fail
\* during a scan: _extract_prompt_if_possible then gives three empty texts, and the record
\* is cached with an empty prompt.
NextPrompt ==
    \/ \E o \in Objects : Upload(o)
    \/ Load("ui")
    \/ ScanAndSync("ui", {TRUE}, BOOLEAN, {"ok"})
    \/ ProcessSubmission("ui", {"ok"})

SpecPrompt == Init /\ [][NextPrompt]_vars

\* one call of get_image_metadata
GetImageMetadataCall ==
    /\ call.fn = "none"
    /\ call' = [fn |-> "get_image_metadata",
                generation_prompt |-> call.generation_prompt,
                user_tags |-> call.user_tags,
                response |-> call.response,
                result |-> GetImageMetadata(call.generation_prompt, call.user_tags,
                                            call.response)]
    /\ last' = [NoOp EXCEPT !.op = "get_image_metadata"]
    /\ UNCHANGED <<store, file, pc, db, now, acked, jobVars, sub>>

NextMetadata == GetImageMetadataCall

SpecMetadata == InitMetadata /\ [][NextMetadata]_vars

\* run() names the folder of the job: output/<timestamp>_<safe_keyword>; render_generate_tab
\* starts no job with an empty keyword
JobPrefix ==
    /\ call.fn = "none"
    /\ call.keyword # << >>
    /\ call' = [fn |-> "job_prefix", keyword |-> call.keyword,
                segment |-> JobSafeKeyword(call.keyword)]
    /\ last' = [NoOp EXCEPT !.op = "job_prefix", !.inst = "job"]
    /\ UNCHANGED <<store, file, pc, db, now, acked, jobVars, sub>>

\* process_submission names the folder of the batch: submissions/<timestamp>_<safe_keyword>
SubmissionPrefix ==
    /\ call.fn = "none"
    /\ call' = [fn |-> "submission_prefix", keyword |-> call.keyword,
                segment |-> SubmissionSafeKeyword(call.keyword)]
    /\ last' = [NoOp EXCEPT !.op = "submission_prefix", !.inst = "ui"]
    /\ UNCHANGED <<store, file, pc, db, now, acked, jobVars, sub>>

NextKeyword == JobPrefix \/ SubmissionPrefix

\* the two passes of the loop of process_submission over the two items: the names and the
\* keys _process_single_image gives to their upscaled images, and the entries of the ZIP
ProcessTwoItems ==
    /\ call.fn = "none"
    /\ LET new_filenames == [n \in 1 .. 2 |->
                               NewFilename(call.items[n].idx, call.items[n].path)]
       IN call' = [fn |-> "process_submission", items |-> call.items,
                   new_filenames |-> new_filenames,
                   output_keys |-> [n \in 1 .. 2 |->
                                      OutputKey(<<"submissions", "/", "batch">>,
                                                new_filenames[n])],
                   entries |-> new_filenames \o <<SubmitCsvName>>]
    /\ last' = [NoOp EXCEPT !.op = "process_submission", !.inst = "ui"]
    /\ UNCHANGED <<store, file, pc, db, now, acked, jobVars, sub>>

SpecNames == InitNames /\ [][ProcessTwoItems]_vars

SpecKeyword == InitKeyword /\ [][NextKeyword]_vars

\* one call of get_images_by_status on the instance
GetImagesByStatusCall ==
    /\ call.fn = "none"
    /\ pc["ui"] = "ready"
    /\ call' = [fn |-> "get_images_by_status", status |-> call.status,
                result |-> GetImagesByStatus(db["ui"], call.status)]
    /\ last' = [NoOp EXCEPT !.op = "get_images_by_status", !.inst = "ui"]
    /\ UNCHANGED <<store, file, pc, db, now, acked, jobVars, sub>>

NextGallery == GetImagesByStatusCall

SpecGallery == InitGallery /\ [][NextGallery]_vars

\* ------------------------------------------------- the job and its UI
JobOp(name) == [NoOp EXCEPT !.op = name, !.inst = "job"]
\* finally: is_running = False; the locals of run() are gone when it returns
NotRunning(job) ==
    [job EXCEPT !.is_running = FALSE, !.pc = "ended",
                !.ideas = 0, !.i = 0, !.csv_data = << >>]
\* an exception path without the finally clause
Failed_NoFinally(job, e) ==
    [job EXCEPT !.error = e, !.message = "Error", !.pc = "ended",
                !.ideas = 0, !.i = 0, !.csv_data = << >>]

\* except Exception as e: the error and the message are set; finally: is_running = False
Failed(job, e) == NotRunning([job EXCEPT !.error = e, !.message = "Error"])

\* render_generate_tab: "Generate Images" is disabled when the active job says is_running;
\* a click constructs the job, starts its thread and stores it in the session
StartJob(j) ==
    /\ jobs[j].pc = "unborn"
    /\ \A m \in JobIds : m < j => jobs[m].pc # "unborn"
    /\ active_job # NoJob => ~jobs[active_job].is_running
    /\ jobs' = [jobs EXCEPT ![j].pc = "started"]
    /\ active_job' = j
    /\ last' = JobOp("start")
    /\ UNCHANGED <<store, file, pc, db, now, acked, ledger, callVars>>

\* _render_sidebar_status: the stop button, shown while the active job says is_running
Cancel(j) ==
    /\ active_job = j
    /\ jobs[j].is_running
    /\ jobs' = [jobs EXCEPT ![j].stop = TRUE]
    /\ last' = JobOp("cancel")
    /\ UNCHANGED <<store, file, pc, db, now, acked, active_job, ledger, callVars>>

\* _render_sidebar_status: the clear button, shown when the active job is not running and
\* is complete or has an error
ClearJob ==
    /\ active_job # NoJob
    /\ ~jobs[active_job].is_running
    /\ jobs[active_job].is_complete \/ jobs[active_job].error # "None"
    /\ active_job' = NoJob
    /\ last' = JobOp("clear")
    /\ UNCHANGED <<store, file, pc, db, now, acked, jobs, ledger, callVars>>

\* run(), its first two statements
RunBegin(j) ==
    /\ jobs[j].pc = "started"
    /\ jobs' = [jobs EXCEPT ![j] = [@ EXCEPT !.pc = "setup", !.is_running = TRUE,
                                              !.message = "Starting generation..."]]
    /\ last' = JobOp("run")
    /\ UNCHANGED <<store, file, pc, db, now, acked, active_job, ledger, callVars>>

\* run() up to its first look at the stop event: a set event makes it return
RunSetup(j) ==
    /\ jobs[j].pc = "setup"
    /\ jobs' = [jobs EXCEPT ![j] =
                  IF @.stop
                  THEN NotRunning([@ EXCEPT !.stopped = "setup"])
                  ELSE [@ EXCEPT !.pc = "ideas", !.message = "Generating ideas...",
                                 !.progress = 10]]
    /\ last' = JobOp("setup")
    /\ UNCHANGED <<store, file, pc, db, now, acked, active_job, ledger, callVars>>

\* generate_image_description returns n ideas ([] when the remote call failed)
GenerateIdeas(j, n) ==
    /\ jobs[j].pc = "ideas"
    /\ jobs' = [jobs EXCEPT ![j] =
                  IF n = 0
                  THEN Failed(@, "Failed to generate ideas.")
                  ELSE [@ EXCEPT !.pc = "loop", !.ideas = n, !.i = 0]]
    /\ last' = JobOp("ideas")
    /\ UNCHANGED <<store, file, pc, db, now, acked, active_job, ledger, callVars>>

\* a loop head that sees the stop event and goes on all the same
LoopTop_NoBreak(job) ==
    IF job.i = job.ideas THEN [job EXCEPT !.pc = "finalize"]
    ELSE IF job.stop
    THEN [job EXCEPT !.pc = "image", !.message = "Cancelled.", !.stopped = "loop"]
    ELSE [job EXCEPT !.pc = "image", !.message = "Generating image",
                     !.progress = 10 + (80 * job.i) \div job.ideas]

\* the head of the loop over the ideas: the end of the list, or the stop event (break),
\* or the next image
LoopTop(job) ==
    IF job.i = job.ideas THEN [job EXCEPT !.pc = "finalize"]
    ELSE IF job.stop
    THEN [job EXCEPT !.pc = "finalize", !.message = "Cancelled.", !.stopped = "loop"]
    ELSE [job EXCEPT !.pc = "image", !.message = "Generating image",
                     !.progress = 10 + (80 * job.i) \div job.ideas]

LoopHead(j) ==
    /\ jobs[j].pc = "loop"
    /\ jobs' = [jobs EXCEPT ![j] = LoopTop(@)]
    /\ last' = JobOp("loop")
    /\ UNCHANGED <<store, file, pc, db, now, acked, active_job, ledger, callVars>>

\* a loop body that counts an image before it is generated
GenerateImage_CountsFirst(j, ok) ==
    /\ jobs[j].pc = "image"
    /\ LET o == ImageOrder[jobs[j].i + 1]
       IN /\ store' = IF ok THEN [store EXCEPT ![o] = 0] ELSE store
          /\ jobs' = [jobs EXCEPT ![j] =
                        IF ok
                        THEN [@ EXCEPT !.pc = "loop", !.i = @ + 1,
                                       !.csv_data = Append(@, LedgerRow(o.name, JobTags)),
                                       !.generated_count = @ + 1,
                                       !.produced = @ \cup {o}]
                        ELSE [@ EXCEPT !.pc = "loop", !.i = @ + 1,
                                       !.generated_count = @ + 1]]
    /\ last' = JobOp("image")
    /\ UNCHANGED <<file, pc, db, now, acked, active_job, ledger, callVars>>

\* the body of the loop: generate_drawing_prompt and generate_image, which puts the image
\* into the bucket or raises; an exception is printed and the loop goes on
GenerateImage(j, ok) ==
    /\ jobs[j].pc = "image"
    /\ LET o == ImageOrder[jobs[j].i + 1]
       IN /\ store' = IF ok THEN [store EXCEPT ![o] = 0] ELSE store
          /\ jobs' = [jobs EXCEPT ![j] =
                        IF ok
                        THEN [@ EXCEPT !.pc = "loop", !.i = @ + 1,
                                       !.csv_data = Append(@, LedgerRow(o.name, JobTags)),
                                       !.generated_count = @ + 1,
                                       !.produced = @ \cup {o}]
                        ELSE [@ EXCEPT !.pc = "loop", !.i = @ + 1]]
    /\ last' = JobOp("image")
    /\ UNCHANGED <<file, pc, db, now, acked, active_job, ledger, callVars>>

\* the bucket once prompt.csv is uploaded
WithLedger(st) == [st EXCEPT ![Ledger] = 0]
\* the mapping StateManager() of the job ends with: load_db, then scan_and_sync
JobScanDb(f, st, rows) ==
    ScanMergeDb(LoadDb(f), ListObjects(st, TRUE), st, CsvFile(rows, TRUE))

\* run() after the loop: with rows in csv_data, prompt.csv is uploaded (which can raise)
\* and StateManager().scan_and_sync() is called (its listing and its save succeed here);
\* then the job is marked complete
Finalize(j, uploadOk) ==
    /\ jobs[j].pc = "finalize"
    /\ IF jobs[j].csv_data = << >>
       THEN /\ uploadOk
            /\ jobs' = [jobs EXCEPT ![j] =
                          NotRunning([@ EXCEPT !.progress = 100, !.is_complete = TRUE,
                                               !.message = "Generation Complete!"])]
            /\ UNCHANGED <<store, ledger, file>>
       ELSE IF ~uploadOk
       THEN /\ jobs' = [jobs EXCEPT ![j] = Failed([@ EXCEPT !.progress = 95], "S3 upload")]
            /\ UNCHANGED <<store, ledger, file>>
       ELSE /\ store' = WithLedger(store)
            /\ ledger' = jobs[j].csv_data
            /\ IF LoadRaises(file)
               THEN /\ jobs' = [jobs EXCEPT ![j] =
                                  Failed([@ EXCEPT !.progress = 95], "load_db")]
                    /\ UNCHANGED file
               ELSE /\ file' = IF Len(JobScanDb(file, store', ledger')) > Len(LoadDb(file))
                               THEN CompleteFile(JobScanDb(file, store', ledger'))
                               ELSE file
                    /\ jobs' = [jobs EXCEPT ![j] =
                                  NotRunning([@ EXCEPT !.progress = 100,
                                                       !.is_complete = TRUE,
                                                       !.message = "Generation Complete!"])]
    /\ last' = JobOp("finalize")
    /\ UNCHANGED <<pc, db, now, acked, active_job, callVars>>

\* The session's jobs: the UI thread starting, cancelling and clearing them, and the
\* threads of the jobs.
NextJob ==
    \/ \E j \in JobIds : StartJob(j)
    \/ \E j \in JobIds : Cancel(j)
    \/ ClearJob
    \/ \E j \in JobIds : RunBegin(j)
    \/ \E j \in JobIds : RunSetup(j)
    \/ \E j \in JobIds, n \in 0 .. Len(ImageOrder) : GenerateIdeas(j, n)
    \/ \E j \in JobIds : LoopHead(j)
    \/ \E j \in JobIds, ok \in BOOLEAN : GenerateImage(j, ok)
    \/ \E j \in JobIds, uploadOk \in BOOLEAN : Finalize(j, uploadOk)

SpecJob == InitJob /\ [][NextJob]_vars

\* a step of the thread of job j: threading.Thread runs run() to its end once start() was
\* called, and each remote call in it returns or raises
ThreadStep(j) ==
    \/ RunBegin(j)
    \/ RunSetup(j)
    \/ \E n \in 0 .. Len(ImageOrder) : GenerateIdeas(j, n)
    \/ LoopHead(j)
    \/ \E ok \in BOOLEAN : GenerateImage(j, ok)
    \/ \E uploadOk \in BOOLEAN : Finalize(j, uploadOk)

\* One job and the UI that starts, cancels and clears it; the thread takes its next step
\* as long as it has one, the UI may stop clicking at any time.
NextOneJob ==
    \/ StartJob(1)
    \/ Cancel(1)
    \/ ClearJob
    \/ ThreadStep(1)

SpecJobFair == InitJob /\ [][NextOneJob]_vars /\ WF_vars(ThreadStep(1))

\* One job, and the UI thread constructing StateManager instances (a re-render, "Forced
\* Rescan") while the job's thread runs; nothing fails but the remote generation calls.
NextJobScan ==
    \/ StartJob(1)
    \/ RunBegin(1)
    \/ RunSetup(1)
    \/ \E n \in 0 .. Len(ImageOrder) : GenerateIdeas(1, n)
    \/ LoopHead(1)
    \/ \E ok \in BOOLEAN : GenerateImage(1, ok)
    \/ Finalize(1, TRUE)
    \/ Discard("ui")
    \/ Load("ui")
    \/ ScanAndSync("ui", {TRUE}, {TRUE}, {"ok"})

SpecJobScan == InitJob /\ [][NextJobScan]_vars

\* ================================================================== claims
Ui == "ui"
SaveFailed(l) == l.save \in {"open_fails", "write_fails"}
ImagesInStore == {o \in Objects : IsImageKey(o) /\ store[o] # Absent}

\* C1: scan_and_sync is additive only.  A scan_and_sync that returns leaves every record
\* the mapping held before the call in the mapping with all its fields as they were
\* (also when its object is gone from the bucket), and every record it adds has the
\* status UNPROCESSED.
C1_ScanAdditive ==
    [][(last'.op = "scan_and_sync" /\ last'.outcome = "ok") =>
         LET i == last'.inst IN
         /\ \A k \in DbKeys(db[i]) :
              k \in DbKeys(db'[i]) /\ DbRec(db'[i], k) = DbRec(db[i], k)
         /\ \A n \in DOMAIN db[i] : db'[i][n] = db[i][n]
         /\ \A k \in DbKeys(db'[i]) \ DbKeys(db[i]) :
              DbRec(db'[i], k).status = STATUS_UNPROCESSED]_vars

\* C1 witness: a scan has just added a record to a mapping that holds a record with a
\* changed status whose object has vanished from the bucket.
C1_Witness ==
    /\ last.op = "scan_and_sync" /\ last.outcome = "ok" /\ last.updated
    /\ \E k \in DbKeys(db[Ui]) :
         /\ DbRec(db[Ui], k).status = STATUS_REGISTERED
         /\ store[k] = Absent

\* C2 (as claimed): every status change made by update_status follows one of the four edges
\* UNPROCESSED->REGISTERED, UNPROCESSED->EXCLUDED, REGISTERED->UNPROCESSED,
\* EXCLUDED->UNPROCESSED; in particular none goes from REGISTERED to EXCLUDED or back.
Edges == {<<STATUS_UNPROCESSED, STATUS_REGISTERED>>, <<STATUS_UNPROCESSED, STATUS_EXCLUDED>>,
          <<STATUS_REGISTERED, STATUS_UNPROCESSED>>, <<STATUS_EXCLUDED, STATUS_UNPROCESSED>>}
C2_OnlyGraphEdges ==
    [][last'.op = "update_status" =>
         \A k \in DbKeys(db[Ui]) \cap DbKeys(db'[Ui]) :
            LET old == DbStatus(db[Ui], k)
                new == DbStatus(db'[Ui], k)
            IN old # new => <<old, new>> \in Edges]_vars

\* C3 (as claimed): whatever update_status is called with, every record's status is one of
\* UNPROCESSED, REGISTERED, EXCLUDED.
C3_StatusInEnum ==
    \A i \in Inst : \A n \in DOMAIN db[i] : db[i][n].status \in Statuses

\* C4 (as claimed): once an update_status naming a key has returned, the status the
\* side-file shows for that key changes only by a later update_status call naming the key,
\* whichever other instance saves in between.
C4_UpdateNeverLost ==
    [][\A k \in acked :
         FileStatus(file', k) # FileStatus(file, k) =>
            (last'.op = "update_status" /\ k \in last'.paths)]_vars

\* C5 (as claimed): when the process dies during update_status, the side-file is either
\* what it was before the call or the complete mapping after the whole batch.
C5_CrashAtomic ==
    [][(last'.op = "update_status" /\ last'.outcome = "crashed") =>
         \/ file' = file
         \/ file' = CompleteFile(UpdateDb(db[Ui], last'.paths, last'.status, now'))]_vars

C7_PartialKeys ==
    [][(last'.op = "update_status" /\ last'.outcome # "crashed") =>
         /\ DbKeys(db'[Ui]) = DbKeys(db[Ui])
         /\ Len(db'[Ui]) = Len(db[Ui])
         /\ \A k \in DbKeys(db[Ui]) :
              IF k \in last'.paths
              THEN DbRec(db'[Ui], k).status = last'.status
              ELSE DbRec(db'[Ui], k) = DbRec(db[Ui], k)
         /\ (last'.outcome = "raised" => SaveFailed(last'))]_vars

\* C7 witness: update_status has returned from a list naming a key of the mapping and a
\* key the mapping does not hold.
C7_Witness ==
    /\ last.op = "update_status" /\ last.outcome = "ok"
    /\ last.paths \cap DbKeys(db[Ui]) # {}
    /\ last.paths \ DbKeys(db[Ui]) # {}

\* C8 (as claimed): whenever a save of the side-file fails, the operation that saved raises.
C8_SaveFailurePropagates ==
    SaveFailed(last) => last.outcome = "raised"

\* C9: after update_status has written records and returned, an instance constructed on
\* the same side-file, the bucket holding no image the writer has not recorded, holds the
\* writer's keys with the writer's statuses.
FreshDb(ok) ==
    ScanMergeDb(LoadDb(file), ListObjects(store, ok), store, CsvFile(ledger, TRUE))
C10_LoadFailsSoft ==
    last.op = "load_db" =>
        /\ last.outcome # "raised"
        /\ (~file.exists \/ ~file.closed \/ ~file.utf8) => db[Ui] = << >>

\* ---- process_submission
Positions(selected) == 0 .. Len(selected) - 1
\* the keys of the selection whose resize step did not fail, and their new file names
Surviving(s) == {s.selected[n + 1] : n \in Positions(s.selected) \ s.failed}
SurvivingNames(s) ==
    {UpscaledName(n, s.selected[n + 1]) : n \in Positions(s.selected) \ s.failed}
ImagesOf(result) == SelectSeq(result.members, LAMBDA m : m # SubmitCsv)
SeqRange(q) == {q[n] : n \in DOMAIN q}

\* C11 For any selection and any subset of its items whose resize step fails,
\* process_submission sets exactly the surviving keys to REGISTERED, leaves the status of
\* every other key as it was, and returns an archive with exactly one image and one
\* manifest row for each surviving item.
C11_PartialSubmission ==
    [][(last'.op = "process_submission" /\ sub'.selected # << >>) =>
         /\ \A k \in Surviving(sub') : DbStatus(db'[Ui], k) = STATUS_REGISTERED
         /\ \A k \in DbKeys(db[Ui]) \ Surviving(sub') :
               DbStatus(db'[Ui], k) = DbStatus(db[Ui], k)
         /\ Len(ImagesOf(sub'.result)) = Cardinality(Surviving(sub'))
         /\ SeqRange(ImagesOf(sub'.result)) = SurvivingNames(sub')
         /\ Len(sub'.result.manifest) = Cardinality(Surviving(sub'))
         /\ {sub'.result.manifest[n].Filename : n \in DOMAIN sub'.result.manifest}
               = SurvivingNames(sub')]_vars

\* C12 process_submission with an empty selection returns None without making a batch
\* prefix, without any object-store write, without calling the resize or the metadata
\* service, and without changing a status or writing the side-file.
C12_EmptySelectionNoOp ==
    [][(last'.op = "process_submission" /\ sub'.selected = << >>) =>
         /\ sub'.result.is_none
         /\ ~sub'.batch
         /\ sub'.uploaded = {} /\ store' = store
         /\ sub'.resized = {} /\ sub'.described = {}
         /\ db' = db /\ file' = file]_vars

C12_Witness ==
    /\ last.op = "process_submission" /\ sub.selected = << >>
    /\ Len(db[Ui]) = 2
    /\ ImagesInStore = DbKeys(db[Ui])

\* C13 When every item of a non-empty selection fails in the per-item step,
\* process_submission returns a value its caller takes as a failure, changes no status,
\* and the caller does not report a success.
C13_AllFailedIsFailure ==
    [][(/\ last'.op = "process_submission"
        /\ sub'.selected # << >>
        /\ sub'.failed = Positions(sub'.selected)) =>
         /\ ~Truthy(sub'.result)
         /\ sub'.report # "success"
         /\ db' = db /\ file' = file]_vars

\* C14 After process_submission has registered images, the record of each of them has a
\* submission_id, and the records registered by the same call have the same one.
C14_SubmissionIdSet ==
    last.op = "process_submission" =>
        \A k \in last.paths \cap DbKeys(db[Ui]) :
            /\ "submission_id" \in DOMAIN DbRec(db[Ui], k)
            /\ \A k2 \in last.paths \cap DbKeys(db[Ui]) :
                  /\ "submission_id" \in DOMAIN DbRec(db[Ui], k2)
                  /\ DbRec(db[Ui], k).submission_id = DbRec(db[Ui], k2).submission_id

\* ---- GenerationJob
Ended(j) == jobs[j].pc = "ended"
Unfinished == {j \in JobIds : jobs[j].pc \notin {"unborn", "ended"}}
\* the terminal outcomes the status snapshot of a job names
Outcomes(job) ==
    {o \in {"Complete", "Cancelled", "Failed"} :
        \/ o = "Complete" /\ job.is_complete
        \/ o = "Cancelled" /\ job.message = "Cancelled."
        \/ o = "Failed" /\ job.error # "None"}

\* C15 When a run of a GenerationJob has ended, its status snapshot names exactly one of
\* Complete, Cancelled, Failed, and a run that stopped because it saw the cancellation
\* flag has not is_complete = true.
C15_OneTerminalOutcome ==
    \A j \in JobIds :
        Ended(j) => /\ Cardinality(Outcomes(jobs[j])) = 1
                    /\ jobs[j].stopped # "no" => ~jobs[j].is_complete

\* C16 Within one session at most one GenerationJob is between its start() and the end of
\* its run(): the UI starts no second job while an earlier one has not finished.
C16_OneJobAtATime == Cardinality(Unfinished) <= 1

NoDuplicates(q) == \A a, b \in DOMAIN q : a # b => q[a] # q[b]

\* C18 get_image_metadata does not raise: when the remote call fails it returns a record
\* with a title, with tags equal to the comma-joined mandatory tag list, and category 8.
C18_MetadataFallback ==
    (call.fn = "get_image_metadata" /\ call.response.kind = "raises") =>
        /\ DOMAIN call.result = {"title", "tags", "category"}
        /\ call.result.title # ""
        /\ call.result.tags = Join(call.user_tags)
        /\ call.result.category = FallbackCategory

C18_Witness ==
    /\ call.fn = "get_image_metadata" /\ call.response.kind = "raises"
    /\ call.user_tags = <<"cat", "cute">>
    /\ call.result.tags = <<"cat", "cute">>

\* C19 Every result of get_image_metadata, whatever the remote call answered, has tags
\* that include every mandatory tag and hold no tag twice, and a category in 1..21.
C19_MetadataWellFormed ==
    call.fn = "get_image_metadata" =>
        /\ \A n \in DOMAIN call.user_tags :
              \E m \in DOMAIN call.result.tags : call.result.tags[m] = call.user_tags[n]
        /\ NoDuplicates(call.result.tags)
        /\ call.result.category \in 1 .. NumCategories

\* ---- get_images_by_status
\* the place of a key in the mapping's iteration order
Place(d, k) == CHOOSE n \in DOMAIN d : d[n].key = k

\* C20 get_images_by_status(s) returns exactly the records whose status is s, each with its
\* key as 'path', in descending order of added_at, records of equal added_at in the order
\* in which the mapping iterates.
C20_ListByStatus ==
    call.fn = "get_images_by_status" =>
        LET d == db[Ui]
            r == call.result
        IN /\ Len(r) = Cardinality({n \in DOMAIN d : d[n].status = call.status})
           /\ \A n \in DOMAIN d :
                 d[n].status = call.status => \E m \in DOMAIN r : r[m] = Item(d[n])
           /\ \A m \in DOMAIN r :
                 /\ r[m].path \in DbKeys(d)
                 /\ r[m] = Item(DbRec(d, r[m].path))
                 /\ r[m].status = call.status
           /\ \A a, b \in DOMAIN r :
                 a < b => \/ r[a].added_at > r[b].added_at
                          \/ /\ r[a].added_at = r[b].added_at
                             /\ Place(d, r[a].path) < Place(d, r[b].path)

C20_Witness ==
    /\ call.fn = "get_images_by_status" /\ call.status = STATUS_UNPROCESSED
    /\ Len(call.result) = 3
    /\ db[Ui][1].key = Img2 /\ db[Ui][2].key = Img3 /\ db[Ui][3].key = Img1
    /\ db[Ui][1].added_at = 1 /\ db[Ui][2].added_at = 2 /\ db[Ui][3].added_at = 1
    /\ call.result[1].path = Img3 /\ call.result[2].path = Img2 /\ call.result[3].path = Img1
\* ---- scan_and_sync and the ledger
\* C21 When the listing, or the download or the parse of the ledger, fails during
\* scan_and_sync, the call returns without raising, every record the mapping held is still
\* there in its place with all its fields, and get_images_by_status serves each of them as
\* before.
C21_StoreFailureKeepsRecords ==
    [][(last'.op = "scan_and_sync" /\ (~last'.listed \/ ~last'.csv)) =>
         /\ last'.outcome = "ok"
         /\ pc'[Ui] = "ready"
         /\ Len(db'[Ui]) >= Len(db[Ui])
         /\ \A n \in DOMAIN db[Ui] : db'[Ui][n] = db[Ui][n]
         /\ \A s \in Statuses :
               LET before == GetImagesByStatus(db[Ui], s)
                   after == GetImagesByStatus(db'[Ui], s)
               IN \A m \in DOMAIN before : \E n \in DOMAIN after : after[n] = before[m]]_vars

\* C21 witness: a scan whose listing failed has returned to a mapping that holds a
\* registered record, while the bucket holds an image the mapping has no record of.
C21_Witness ==
    /\ last.op = "scan_and_sync" /\ ~last.listed /\ last.outcome = "ok"
    /\ \E k \in DbKeys(db[Ui]) : DbRec(db[Ui], k).status = STATUS_REGISTERED
    /\ ImagesInStore \ DbKeys(db[Ui]) # {}

\* the text of column c in a row of the ledger; a column the header lacks has none
Cell(row, c) == IF c \in DOMAIN row THEN row[c] ELSE ""
RowsFor(k) == SelectSeq(ledger, LAMBDA r : r.filename = k.name)

\* C22 (as claimed): a record scan_and_sync creates is UNPROCESSED and has the prompt, tags
\* and keyword of the row for its filename in the prompt.csv of its directory; when the
\* ledger is missing, cannot be read or has no such row, the three fields are empty texts.
C22_RecordFromLedger ==
    [][last'.op = "scan_and_sync" =>
         /\ last'.outcome = "ok"
         /\ \A k \in DbKeys(db'[Ui]) \ DbKeys(db[Ui]) :
               LET r == DbRec(db'[Ui], k)
                   readable == last'.csv /\ store[Ledger] # Absent /\ RowsFor(k) # << >>
               IN /\ r.status = STATUS_UNPROCESSED
                  /\ r.prompt = (IF readable THEN Cell(RowsFor(k)[1], "prompt") ELSE "")
                  /\ r.tags = (IF readable THEN Cell(RowsFor(k)[1], "tags") ELSE "")
                  /\ r.keyword = (IF readable THEN Cell(RowsFor(k)[1], "keyword") ELSE "")]_vars
\* C23 (as claimed): when a job that uploaded its ledger has ended, every image it uploaded
\* has a record in the side-file whose prompt, tags and keyword are those of its row in the
\* ledger, also when an instance of the UI thread ran scan_and_sync while the job was
\* running.
C23_JobRecordsMatchLedger ==
    \A j \in JobIds :
        (Ended(j) /\ jobs[j].is_complete /\ store[Ledger] # Absent) =>
            \A o \in jobs[j].produced :
                /\ o \in DbKeys(LoadDb(file))
                /\ RowsFor(o) # << >>
                /\ DbRec(LoadDb(file), o).prompt = RowsFor(o)[1].prompt
                /\ DbRec(LoadDb(file), o).tags = RowsFor(o)[1].tags
                /\ DbRec(LoadDb(file), o).keyword = RowsFor(o)[1].keyword
\* ---- process_submission, the per-item step
\* the selected key a member of the archive, or a row of the manifest, was made from
SourceOf(s, filename) == s.selected[filename.idx + 1]

\* C24 (as claimed): in every process_submission call, wherever the per-item step fails
\* (resize, metadata, the download of the resized object), the images in the archive, the
\* rows of submit.csv and the keys passed to update_status as REGISTERED are the same items.
C24_ArchiveManifestKeys ==
    [][(last'.op = "process_submission" /\ sub'.selected # << >>) =>
         LET images == {SourceOf(sub', m) : m \in SeqRange(ImagesOf(sub'.result))}
             rows == {SourceOf(sub', sub'.result.manifest[n].Filename) :
                        n \in DOMAIN sub'.result.manifest}
             keys == SeqRange(sub'.paths)
         IN /\ images = rows
            /\ rows = keys
            /\ last'.paths = keys
            /\ last'.status = STATUS_REGISTERED]_vars
\* C25 In process_submission an exception raised while one selected item is processed (a
\* source image that is missing or cannot be decoded included) does not end the batch:
\* every item of the selection is attempted exactly once, in the order of the selection,
\* whichever items before it failed.
C25_EveryItemAttemptedOnce ==
    [][(last'.op = "process_submission" /\ sub'.selected # << >>) =>
         /\ last'.outcome = "ok"
         /\ sub'.attempts = [n \in 1 .. Len(sub'.selected) |-> n - 1]
         /\ sub'.resized = Positions(sub'.selected)]_vars

\* C25 witness: a selection of two items whose first item's source is not in the bucket
\* and whose second item is in the archive.
C25_Witness ==
    /\ last.op = "process_submission" /\ Len(sub.selected) = 2
    /\ store[sub.selected[1]] = Absent
    /\ sub.failed = {0}
    /\ sub.attempts = <<0, 1>>
    /\ ImagesOf(sub.result) = <<UpscaledName(1, sub.selected[2])>>
\* ---- update_status and scan_and_sync, memory and side-file
\* the listed keys the mapping holds when update_status is called
Present(l, d) == l.paths \cap DbKeys(d)

\* C26 Within update_status every listed key the mapping holds is updated in memory before
\* the side-file is written: save_db is called once per call when there is such a key, and
\* what it writes is the mapping with the whole batch applied; it is not called, and the
\* side-file is left alone, when there is none.
C26_UpdateThenOneWrite ==
    [][last'.op = "update_status" =>
         /\ last'.writes = (IF Present(last', db[Ui]) = {} THEN 0 ELSE 1)
         /\ (last'.save = "none") <=> (last'.writes = 0)
         /\ last'.writes = 0 => file' = file
         /\ last'.save = "ok" =>
               /\ file' = CompleteFile(UpdateDb(db[Ui], last'.paths, last'.status, now'))
               /\ \A k \in Present(last', db[Ui]) : FileStatus(file', k) = last'.status
         /\ last'.outcome # "crashed" =>
               \A k \in Present(last', db[Ui]) : DbStatus(db'[Ui], k) = last'.status]_vars

\* C26 witness: the second update_status of a behaviour has returned from one write of a
\* batch of two keys of the mapping, both reverted to UNPROCESSED.
C26_Witness ==
    /\ last.op = "update_status" /\ last.save = "ok" /\ last.writes = 1
    /\ Cardinality(Present(last, db[Ui])) = 2
    /\ last.status = STATUS_UNPROCESSED
    /\ \A k \in last.paths : FileStatus(file, k) = STATUS_UNPROCESSED
    /\ \A k \in last.paths : DbRec(db[Ui], k).updated_at = MaxClock
\* C27 update_status changes nothing but the status and the updated_at of the listed keys
\* the mapping holds: their added_at, prompt, tags and keyword, and every field of every
\* other record, are as before; and each of those keys gets a new updated_at on every
\* call, also when its status was the new status already.
C27_UpdateFrame ==
    [][(last'.op = "update_status" /\ last'.outcome # "crashed") =>
         /\ Len(db'[Ui]) = Len(db[Ui])
         /\ \A n \in DOMAIN db[Ui] :
               LET old == db[Ui][n]
                   new == db'[Ui][n]
               IN IF old.key \in last'.paths
                  THEN /\ new = [old EXCEPT !.status = new.status, !.updated_at = new.updated_at]
                       /\ new.updated_at = now'
                       /\ new.updated_at # old.updated_at
                  ELSE new = old]_vars

\* C27 witness: update_status has returned after setting REGISTERED on a record that was
\* found with its ledger row, next to a record excluded by an earlier call and not listed now.
C27_Witness ==
    /\ last.op = "update_status" /\ last.outcome = "ok"
    /\ Len(db[Ui]) = 2
    /\ last.paths = {db[Ui][1].key}
    /\ db[Ui][1].status = STATUS_REGISTERED /\ db[Ui][1].updated_at = 2
    /\ db[Ui][1].prompt = "a cat" /\ db[Ui][1].added_at = 0
    /\ db[Ui][2].status = STATUS_EXCLUDED /\ db[Ui][2].updated_at = 1
\* C28 scan_and_sync calls save_db if and only if the call added a record, and then once,
\* after the loop over the listing: what a successful save writes is the mapping with
\* every record the call added, and the side-file is left alone when nothing was added.
C28_ScanWritesIffAdded ==
    [][(last'.op = "scan_and_sync" /\ last'.outcome # "crashed") =>
         LET added == Len(db'[Ui]) - Len(db[Ui])
         IN /\ added >= 0
            /\ last'.writes = (IF added > 0 THEN 1 ELSE 0)
            /\ (last'.save = "none") <=> (added = 0)
            /\ added = 0 => file' = file
            /\ last'.save = "ok" => file' = CompleteFile(db'[Ui])]_vars

\* C28 witness: a scan has returned from writing, once, a mapping of two records of which
\* it added at least one.
C28_Witness ==
    /\ last.op = "scan_and_sync" /\ last.outcome = "ok"
    /\ last.updated /\ last.save = "ok" /\ last.writes = 1
    /\ Len(db[Ui]) = 2
    /\ file = CompleteFile(db[Ui])
\* C29 (as claimed): when an operation of the instance has returned normally, the mapping
\* the side-file holds is the mapping in memory; a scan_and_sync that added records and
\* then met an error leaves no record in memory that the side-file lacks.
C29_FileEqualsMemory ==
    (/\ last.inst = Ui
     /\ last.op \in {"load_db", "scan_and_sync", "update_status"}
     /\ last.outcome = "ok") =>
        /\ ~LoadRaises(file)
        /\ LoadDb(file) = db[Ui]
\* ---- where records come from
\* C30 Records are created only by scan_and_sync and never deleted.  Every key of a mapping
\* is under 'output/', contains 'generated_images/' and ends with '.png' (so no key under
\* 'submissions/' and no prompt.csv is a record); a key enters a mapping only in a
\* scan_and_sync whose listing holds it, or by load_db from the side-file; a key enters the
\* side-file only from the mapping of the instance that saves; and no operation that
\* returns takes a key out of the mapping it works on.
C30_RecordsOnlyFromListing ==
    [][/\ \A i \in Inst : \A k \in DbKeys(db'[i]) :
             /\ k.top = "output" /\ k.folder = "generated_images" /\ k.ext = "png"
             /\ k \notin {Ledger, Thumb, Upscaled}
       /\ \A i \in Inst : \A k \in DbKeys(db'[i]) \ DbKeys(db[i]) :
             /\ last'.inst = i
             /\ \/ /\ last'.op = "scan_and_sync"
                    /\ last'.listed
                    /\ \E n \in DOMAIN ListObjects(store, TRUE) :
                          ListObjects(store, TRUE)[n].Key = k
                 \/ /\ last'.op = "load_db"
                    /\ k \in DbKeys(LoadDb(file))
       /\ \A k \in DbKeys(LoadDb(file')) \ DbKeys(LoadDb(file)) :
             /\ last'.op \in {"scan_and_sync", "update_status"}
             /\ k \in DbKeys(db'[last'.inst])
       /\ (last'.op \in {"scan_and_sync", "update_status"} /\ last'.outcome # "crashed") =>
             DbKeys(db[last'.inst]) \subseteq DbKeys(db'[last'.inst])]_vars

\* C30 witness: a scan has added a record while the bucket holds the ledger, a thumbnail
\* and an object under submissions/, and the mapping holds a record whose object is gone.
C30_Witness ==
    /\ last.op = "scan_and_sync" /\ last.updated /\ last.outcome = "ok"
    /\ store[Ledger] # Absent /\ store[Thumb] # Absent /\ store[Upscaled] # Absent
    /\ DbKeys(db[Ui]) = {Img1, Img2}
    /\ store[Img1] = Absent
\* ---- update_status, twice
\* C31 update_status is idempotent on statuses: a call that directly follows a call with
\* the same keys and the same new status leaves the status of every record, in memory and
\* in the side-file it writes, as the first call left it.
C31_UpdateIdempotent ==
    [][(last'.op = "update_status" /\ last'.prev = "same" /\ last'.outcome # "crashed") =>
         /\ DbKeys(db'[Ui]) = DbKeys(db[Ui])
         /\ \A k \in DbKeys(db[Ui]) : DbStatus(db'[Ui], k) = DbStatus(db[Ui], k)
         /\ last'.save = "ok" =>
               \A k \in DbKeys(db[Ui]) : FileStatus(file', k) = DbStatus(db[Ui], k)]_vars

\* C31 witness: the second of two equal calls has returned, having excluded again one of
\* two records and written the side-file.
C31_Witness ==
    /\ last.op = "update_status" /\ last.prev = "same" /\ last.outcome = "ok"
    /\ last.save = "ok" /\ last.status = STATUS_EXCLUDED
    /\ Len(db[Ui]) = 2
    /\ Cardinality(Present(last, db[Ui])) = 1
    /\ \E k \in last.paths : DbStatus(db[Ui], k) = STATUS_EXCLUDED
\* ---- GenerationJob, failures of a unit of work
\* C32 (as claimed): the failure of one unit of work of a job (the ideation, a drawing
\* prompt, one image generation) skips that unit and is not fatal: the thread goes on to
\* the images that remain, and the run does not end Failed because of it.
C32_UnitFailureNotFatal ==
    [][\A j \in JobIds :
         /\ (jobs[j].pc = "ideas" /\ jobs'[j].pc # "ideas") =>
               /\ jobs'[j].error = "None"
               /\ jobs'[j].pc # "ended"
         /\ (jobs[j].pc = "image" /\ jobs'[j].pc # "image") =>
               /\ jobs'[j].error = "None"
               /\ jobs'[j].pc = "loop"
               /\ jobs'[j].i = jobs[j].i + 1]_vars
\* C33 At every point of a run, generated_count is the number of ledger rows collected so
\* far and the number of images the job has uploaded, and is not more than the number of
\* ideas; the prompt.csv a run uploads has exactly one row for each image it uploaded.
C33_CountRowsImages ==
    [][\A j \in JobIds :
         /\ jobs'[j].generated_count = Cardinality(jobs'[j].produced)
         /\ \A o \in jobs'[j].produced : store'[o] # Absent
         /\ jobs'[j].pc \in {"loop", "image", "finalize"} =>
               /\ jobs'[j].generated_count = Len(jobs'[j].csv_data)
               /\ jobs'[j].generated_count <= jobs'[j].i
               /\ jobs'[j].i <= jobs'[j].ideas
               /\ {jobs'[j].csv_data[n].filename : n \in DOMAIN jobs'[j].csv_data}
                     = {o.name : o \in jobs'[j].produced}
         /\ (jobs[j].pc = "finalize" /\ jobs'[j].pc = "ended" /\ jobs'[j].is_complete
             /\ jobs[j].produced # {}) =>
               /\ store'[Ledger] # Absent
               /\ Len(ledger') = Cardinality(jobs[j].produced)
               /\ {ledger'[n].filename : n \in DOMAIN ledger'}
                     = {o.name : o \in jobs[j].produced}]_vars

\* C33 witness: a run of two ideas whose first image failed has ended after uploading a
\* ledger with the one row of its second image.
C33_Witness ==
    /\ Ended(1) /\ jobs[1].error = "None" /\ jobs[1].is_complete
    /\ jobs[1].produced = {Img2} /\ jobs[1].generated_count = 1
    /\ store[Img1] = Absent
    /\ ledger = <<LedgerRow(Img2.name, JobTags)>>
\* C34 (as claimed): when a run that uploaded an image finishes, the ledger is in the
\* bucket before the reconciliation, and after the run every image it uploaded has a
\* record with the status UNPROCESSED in the side-file.
C34_LedgerThenReconcile ==
    [][\A j \in JobIds :
         (jobs[j].pc = "finalize" /\ jobs'[j].pc = "ended" /\ jobs[j].produced # {}) =>
            /\ store'[Ledger] # Absent
            /\ \A o \in jobs[j].produced :
                  /\ FileStatus(file', o) = STATUS_UNPROCESSED
                  /\ o \notin DbKeys(LoadDb(file)) =>
                        DbRec(LoadDb(file'), o).prompt = LedgerRow(o.name, JobTags).prompt]_vars
\* C35 Every started job comes to have is_running = false with its run ended, on every
\* path (completion, cancellation before or in the loop, exception), each remote call
\* returning or raising; and is_complete and an error are never both set.
C35_RunEnds ==
    /\ \A j \in JobIds :
          (jobs[j].pc = "started") ~> (jobs[j].pc = "ended" /\ ~jobs[j].is_running)
    /\ [](\A j \in JobIds : ~(jobs[j].is_complete /\ jobs[j].error # "None"))

\* C35 witness: a run that had uploaded an image has ended on its exception path, not
\* running and not complete.
C35_Witness ==
    /\ Ended(1) /\ ~jobs[1].is_running /\ ~jobs[1].is_complete
    /\ jobs[1].error = "S3 upload"
    /\ jobs[1].produced = {Img1}
\* ---- keyword segments
SegmentChars == {"a", "7", "_", "-"}
WellFormedSegment(segment) ==
    /\ \A n \in DOMAIN segment : segment[n] \in SegmentChars
    /\ Len(segment) <= SegmentLimit

\* C36 (as claimed): for any keyword, the keyword segment of the keys a job writes under
\* output/ and of the keys a submission writes under submissions/ holds only
\* alphanumerics, underscores and hyphens and is at most 50 characters long.
C36_SegmentsSanitised ==
    call.fn \in {"job_prefix", "submission_prefix"} => WellFormedSegment(call.segment)

\* the same for the folder of a job alone
C36_JobSegmentSanitised ==
    call.fn = "job_prefix" => WellFormedSegment(call.segment)
\* ---- the prompt of a submitted item
\* C37 (as claimed): when the cached prompt of a selected record is empty, the per-item
\* step looks the prompt up a second time before it calls the metadata service: the
\* service is called with an empty prompt only for an item whose lookup in the ledger of
\* its run folder gives no prompt either.
C37_SecondaryLookup ==
    last.op = "process_submission" =>
      \A p \in sub.prompts :
        p.prompt = "" => ExtractPrompt(store, p.path, CsvFile(ledger, TRUE)).prompt = ""
\* ---- names of upscaled images
\* C38: within one call of process_submission the names upscaled_<idx>_<basename>.png of
\* two items are different, whatever their keys (the same key twice, two keys with the
\* same basename), and so are their object keys and the entries of the archive.
C38_NamesDistinct ==
    call.fn = "process_submission" =>
      /\ call.new_filenames[1] # call.new_filenames[2]
      /\ call.output_keys[1] # call.output_keys[2]
      /\ \A a, b \in DOMAIN call.entries : a # b => call.entries[a] # call.entries[b]

\* the same key at the positions 0 and 1000, named
C38_Witness ==
    /\ call.fn = "process_submission"
    /\ call.items[1].path = call.items[2].path
    /\ call.items[1].idx = 0 /\ call.items[2].idx = 1000
    /\ call.new_filenames[1] # call.new_filenames[2]
====
